---- MODULE Spec2Model ----
(***************************************************************************)
(* A model of the region-elevation path engine of fvtt-terrain-mapper:     *)
(* RegionsElevationHandler.constructRegionsPath (the march over the        *)
(* cutaway polygons), elevationType and nearestGroundElevation.            *)
(*                                                                         *)
(* Numbers are exact rationals <<n, d>> (d > 0, lowest terms); negative    *)
(* infinity is <<-1, 0>>.  Cutaway points are records [x, y]: x the planar *)
(* distance from the start of the move, y the elevation.                   *)
(***************************************************************************)
EXTENDS Integers, Sequences, FiniteSets, TLC

\* ------------------------------------------------------------------------
\* Bounds of the model
\* ------------------------------------------------------------------------
\* Largest planar length of a move, in grid units.
MaxDist == 3
\* Largest elevation of a start, an end or a zone surface.
MaxElev == 2

\* ------------------------------------------------------------------------
\* Program constants
\* ------------------------------------------------------------------------
MIN_ELEV == -1000000
MAX_ITER == 10000

\* ------------------------------------------------------------------------
\* Exact rational arithmetic (JavaScript numbers on the model's small grid)
\* ------------------------------------------------------------------------
Abs(n) == IF n < 0 THEN -n ELSE n

RECURSIVE GCD(_, _)
GCD(a, b) == IF b = 0 THEN a ELSE GCD(b, a % b)

Norm(n, d) ==
  IF d = 0 THEN <<IF n < 0 THEN -1 ELSE 1, 0>>
  ELSE LET g == GCD(Abs(n), Abs(d))
           s == IF d < 0 THEN -1 ELSE 1
       IN  <<(s * n) \div g, (s * d) \div g>>

Rat(n) == <<n, 1>>
Half(n) == Norm(n, 2)
NegInf == <<-1, 0>>

RAdd(a, b) == Norm(a[1] * b[2] + b[1] * a[2], a[2] * b[2])
RSub(a, b) == Norm(a[1] * b[2] - b[1] * a[2], a[2] * b[2])
RMul(a, b) == Norm(a[1] * b[1], a[2] * b[2])
RDiv(a, b) == Norm(a[1] * b[2], a[2] * b[1])
RLt(a, b) == a[1] * b[2] < b[1] * a[2]
RLe(a, b) == a[1] * b[2] <= b[1] * a[2]
RSign(a) == IF a[1] < 0 THEN -1 ELSE IF a[1] > 0 THEN 1 ELSE 0
RAbs(a) == <<Abs(a[1]), a[2]>>
RMax(a, b) == IF RLt(a, b) THEN b ELSE a
RFloor(a) == Rat(a[1] \div a[2])
\* Clipper's rounding of a coordinate to an integer: half away from zero.
RRound(a) == IF a[1] < 0 THEN Rat(-((2 * (-a[1]) + a[2]) \div (2 * a[2])))
             ELSE Rat((2 * a[1] + a[2]) \div (2 * a[2]))
\* The square root of a rational that is a perfect square.
ISqrt(n) == CHOOSE k \in 0..n : k * k = n
RSqrt(a) == <<ISqrt(a[1]), ISqrt(a[2])>>

\* Number.prototype.almostEqual(n, e): |this - n| < e.
AlmostEqual(a, b, e) == RLt(RAbs(RSub(a, b)), e)

Pt(x, y) == [x |-> x, y |-> y]
IPt(x, y) == [x |-> Rat(x), y |-> Rat(y)]

\* ------------------------------------------------------------------------
\* Geometry primitives used by the march (foundry.utils, PIXI.Polygon)
\* ------------------------------------------------------------------------
\* foundry.utils.orient2dFast(a, b, c): only its sign is used.
Orient(a, b, c) ==
  RSign(RSub(RMul(RSub(a.y, c.y), RSub(b.x, c.x)),
             RMul(RSub(a.x, c.x), RSub(b.y, c.y))))

\* foundry.utils.lineSegmentIntersects(a, b, c, d): touching counts, collinear
\* segments do not.
LineSegmentIntersects(a, b, c, d) ==
  LET xa == Orient(a, b, c)
      xb == Orient(a, b, d)
  IN  /\ ~(xa = 0 /\ xb = 0)
      /\ xa * xb <= 0
      /\ Orient(c, d, a) * Orient(c, d, b) <= 0

\* lineSegmentCrosses(a, b, c, d): a proper crossing, no endpoint touching.
LineSegmentCrosses(a, b, c, d) ==
  LET xa == Orient(a, b, c)
      xb == Orient(a, b, d)
  IN  /\ xa # 0 /\ xb # 0
      /\ xa * xb < 0
      /\ Orient(c, d, a) * Orient(c, d, b) < 0

\* foundry.utils.lineLineIntersection(a, b, c, d): x, y and t0, the share of
\* a|b at which the lines meet.  Called only for an edge c|d that
\* LineSegmentIntersects accepted, so the denominator is not 0.
LineLineIntersection(a, b, c, d) ==
  LET dnm == RSub(RMul(RSub(d.y, c.y), RSub(b.x, a.x)),
                  RMul(RSub(d.x, c.x), RSub(b.y, a.y)))
      t0 == RDiv(RSub(RMul(RSub(d.x, c.x), RSub(a.y, c.y)),
                      RMul(RSub(d.y, c.y), RSub(a.x, c.x))), dnm)
  IN  [x |-> RAdd(a.x, RMul(t0, RSub(b.x, a.x))),
       y |-> RAdd(a.y, RMul(t0, RSub(b.y, a.y))),
       t0 |-> t0]

\* poly.iterateEdges({close: true}): edge i runs from point i to the next.
EdgeA(poly, i) == poly[i]
EdgeB(poly, i) == poly[(i % Len(poly)) + 1]

\* PIXI.Polygon.contains(x, y): even-odd ray casting.  A point on the lowest
\* y (the bottom, y being elevation here) is inside, a point on the highest y
\* (the top surface) is not.
PolyContains(poly, p) ==
  LET hit(i) ==
        LET pi == EdgeA(poly, i)
            pj == EdgeB(poly, i)
        IN  /\ RLt(p.y, pi.y) # RLt(p.y, pj.y)
            /\ RLt(p.x, RAdd(RMul(RSub(pj.x, pi.x),
                                  RDiv(RSub(p.y, pi.y), RSub(pj.y, pi.y))), pi.x))
  IN  Cardinality({i \in 1..Len(poly) : hit(i)}) % 2 = 1

\* poly.lineSegmentIntersects(a, b): false when both ends are inside, else
\* whether some edge is touched or crossed.
PolyLineSegmentIntersects(poly, a, b) ==
  /\ ~(PolyContains(poly, a) /\ PolyContains(poly, b))
  /\ \E i \in 1..Len(poly) :
       LineSegmentIntersects(a, b, EdgeA(poly, i), EdgeB(poly, i))

\* poly.linesCross([{A, B}]): some edge is properly crossed.
PolyLinesCross(poly, a, b) ==
  \E i \in 1..Len(poly) :
    LineSegmentCrosses(EdgeA(poly, i), EdgeB(poly, i), a, b)

\* pointOnPolygonEdge(a, poly): a lies on some edge (its closest point on the
\* edge is a itself).
OnSegment(p, a, b) ==
  /\ Orient(a, b, p) = 0
  /\ RLe(IF RLt(a.x, b.x) THEN a.x ELSE b.x, p.x)
  /\ RLe(p.x, RMax(a.x, b.x))
  /\ RLe(IF RLt(a.y, b.y) THEN a.y ELSE b.y, p.y)
  /\ RLe(p.y, RMax(a.y, b.y))

pointOnPolygonEdge(p, poly) ==
  \E i \in 1..Len(poly) : OnSegment(p, EdgeA(poly, i), EdgeB(poly, i))

\* ------------------------------------------------------------------------
\* The scene: zones, scene floor, canvas points
\* ------------------------------------------------------------------------
\* The canvas start of every move and the unit direction of travel
\* (<<3, 4, 5>> is the direction (3/5, 4/5)), so that planar distances are
\* rational.
StartXY == <<1, 2>>
Dir == <<3, 4, 5>>
DirX == Norm(Dir[1], Dir[3])
DirY == Norm(Dir[2], Dir[3])

\* ELEVATION_LOCATIONS
UNDERGROUND == 0
GROUND == 1
FLOATING == 2

\* An absent y coordinate (JavaScript's undefined).
Undefined == <<0, 0>>

\* The canvas point at planar distance d from the start, elevation e.
CanvasPt(d, e) ==
  [x |-> RAdd(Rat(StartXY[1]), RMul(d, DirX)),
   y |-> RAdd(Rat(StartXY[2]), RMul(d, DirY)),
   elevation |-> e]

\* PIXI.Point.distanceBetween(a, b)
distanceBetween(a, b) ==
  LET dx == RSub(b.x, a.x)
      dy == RSub(b.y, a.y)
  IN  RSqrt(RAdd(RMul(dx, dx), RMul(dy, dy)))

\* Signed position of a canvas point along the line of travel.
Along(p) ==
  RAdd(RMul(RSub(p.x, Rat(StartXY[1])), DirX),
       RMul(RSub(p.y, Rat(StartXY[2])), DirY))

\* A zone covers the stretch lo..hi of the line of travel and the elevations
\* bottom..top; elev is the elevation set on entry (a plateau), or the
\* elevation at the hi end of a ramp that starts from rampFloor at lo.
Zone(kind, lo, hi, bottom, top, elev, rampFloor) ==
  [kind |-> kind, lo |-> lo, hi |-> hi, bottom |-> bottom, top |-> top,
   elev |-> elev, rampFloor |-> rampFloor]

\* region.testPoint(point, elevation)
testPoint(z, p, e) ==
  /\ RLe(Rat(z.lo), Along(p)) /\ RLe(Along(p), Rat(z.hi))
  /\ RLe(Rat(z.bottom), e) /\ RLe(e, Rat(z.top))

\* region.terrainmapper.elevationUponEntry(point)
elevationUponEntry(z, p) ==
  IF z.kind = "ramp"
  THEN RAdd(Rat(z.rampFloor),
            RMul(Rat(z.elev - z.rampFloor),
                 RDiv(RSub(Along(p), Rat(z.lo)), Rat(z.hi - z.lo))))
  ELSE Rat(z.elev)

\* elevatedRegions(regions): the zones that set an elevation.
elevatedRegions(zs) == SelectSeq(zs, LAMBDA z : z.kind \in {"plateau", "ramp"})

\* regionWaypointsEqual(a, b), regionWaypointsXYEqual(a, b)
regionWaypointsXYEqual(a, b) == a.x = b.x /\ a.y = b.y
regionWaypointsEqual(a, b) ==
  regionWaypointsXYEqual(a, b) /\ a.elevation = b.elevation

\* A variant of the loop below in which the last region that holds the point
\* decides offPlateau.
RECURSIVE ElevationTypeLoopLast(_, _, _, _, _)
ElevationTypeLoopLast(regions, i, waypoint, inside, offPlateau) ==
  IF i > Len(regions) THEN <<inside, offPlateau>>
  ELSE IF ~testPoint(regions[i], waypoint, waypoint.elevation)
       THEN ElevationTypeLoopLast(regions, i + 1, waypoint, inside, offPlateau)
       ELSE ElevationTypeLoopLast(regions, i + 1, waypoint, TRUE,
              elevationUponEntry(regions[i], waypoint) # waypoint.elevation)

\* elevationType's loop over the regions from index i on: <<inside, offPlateau>>.
RECURSIVE ElevationTypeLoop(_, _, _, _, _)
ElevationTypeLoop(regions, i, waypoint, inside, offPlateau) ==
  IF i > Len(regions) THEN <<inside, offPlateau>>
  ELSE IF ~testPoint(regions[i], waypoint, waypoint.elevation)
       THEN ElevationTypeLoop(regions, i + 1, waypoint, inside, offPlateau)
       ELSE IF elevationUponEntry(regions[i], waypoint) # waypoint.elevation
            THEN <<TRUE, TRUE>>
            ELSE ElevationTypeLoop(regions, i + 1, waypoint, TRUE, offPlateau)

elevationType(waypoint, zs, floor) ==
  LET r == ElevationTypeLoop(elevatedRegions(zs), 1, waypoint, FALSE, FALSE)
      inside == r[1]
      offPlateau == r[2]
  IN  IF inside /\ offPlateau THEN UNDERGROUND
      ELSE IF inside /\ ~offPlateau THEN GROUND
      ELSE IF ~inside /\ waypoint.elevation = Rat(floor) THEN GROUND
      ELSE FLOATING

\* ------------------------------------------------------------------------
\* Cutaway construction
\* ------------------------------------------------------------------------
RMin(a, b) == IF RLt(b, a) THEN b ELSE a

\* region.terrainmapper._region2dCutaway(start, end): the stretch of the
\* zone on the segment of length dist, as <<lo, hi, bottom, elev>> with
\* Clipper's integer coordinates, or <<>> when the segment misses the zone.
region2dCutaway(z, dist) ==
  LET clo == RRound(RMax(Rat(z.lo), Rat(0)))
      chi == RRound(RMin(Rat(z.hi), dist))
  IN  IF z.kind # "plateau" \/ ~RLt(clo, chi) \/ z.elev <= z.bottom THEN <<>>
      ELSE <<clo[1], chi[1], z.bottom, z.elev>>

\* The height of the union of the scene floor and the zones resting on it,
\* over the cell k..k+1 of the cutaway.
SkylineHeight(rects, k, floor) ==
  LET hs == {floor} \cup
            {rects[j][4] : j \in {j \in 1..Len(rects) :
                rects[j][3] <= floor /\ rects[j][1] <= k /\ k + 1 <= rects[j][2]}}
  IN  CHOOSE h \in hs : \A g \in hs : g <= h

RECURSIVE SkylinePoints(_, _, _, _)
SkylinePoints(rects, k, right, floor) ==
  IF k = right THEN <<IPt(right, SkylineHeight(rects, right - 1, floor)),
                      IPt(right, MIN_ELEV), IPt(0, MIN_ELEV)>>
  ELSE LET h0 == SkylineHeight(rects, k - 1, floor)
           h1 == SkylineHeight(rects, k, floor)
       IN  (IF h0 = h1 THEN <<>> ELSE <<IPt(k, h0), IPt(k, h1)>>)
           \o SkylinePoints(rects, k + 1, right, floor)

Reverse(s) == [i \in 1..Len(s) |-> s[Len(s) + 1 - i]]

\* ClipperPaths.combinePaths(paths).clean().toPolygons(): the union of the
\* floor polygon (0..right wide, from the scene floor down to MIN_ELEV) and
\* the zones' rectangles.  Zones resting on the floor merge with it; a zone
\* whose bottom is above the floor stays a polygon of its own.  Each polygon
\* lists its points so that its top is walked in the direction of growing x.
combinePaths(rects, right, floor) ==
  LET ground == <<IPt(0, SkylineHeight(rects, 0, floor))>>
                \o SkylinePoints(rects, 1, right, floor)
      floating == SelectSeq(rects, LAMBDA r : r[3] > floor)
  IN  IF right < 1 THEN <<>>
      ELSE <<ground>> \o
           [j \in 1..Len(floating) |->
              <<IPt(floating[j][1], floating[j][3]), IPt(floating[j][1], floating[j][4]),
                IPt(floating[j][2], floating[j][4]), IPt(floating[j][2], floating[j][3])>>]

\* _regions2dCutaway(start, end, regions)
regions2dCutaway(s, e, regions, floor) ==
  LET dist == distanceBetween(s, e)
      all == [j \in 1..Len(regions) |-> region2dCutaway(regions[j], dist)]
      paths == SelectSeq(all, LAMBDA r : r # <<>>)
  IN  combinePaths(paths, RRound(dist)[1], floor)

\* A variant of toPolygons that hands out the polygons of an earlier call,
\* with the points and edges they memoized, when there are any.
toPolygonsKept(kept, paths) == IF kept = <<>> THEN paths ELSE kept

\* combinedPaths.clean().toPolygons(): polygons made anew from the paths of
\* this call, with no _pts, _minMax or _edges yet; kept are the polygons that
\* an earlier call left behind.
toPolygons(kept, paths) == paths

\* _to2dCutawayCoordinate(waypoint, start)
to2dCutawayCoordinate(w, s) == Pt(distanceBetween(s, w), w.elevation)

\* A variant of towardsPoint that takes the distance for the fraction of the
\* way to the other point.
towardsPointFraction(s, e, d) ==
  [x |-> RAdd(s.x, RMul(RSub(e.x, s.x), d)), y |-> RAdd(s.y, RMul(RSub(e.y, s.y), d))]

\* PIXI.Point.towardsPoint(other, distance)
towardsPoint(s, e, d) ==
  LET dx == RSub(e.x, s.x)
      dy == RSub(e.y, s.y)
      t == RDiv(d, RSqrt(RAdd(RMul(dx, dx), RMul(dy, dy))))
  IN  [x |-> RAdd(s.x, RMul(dx, t)), y |-> RAdd(s.y, RMul(dy, t))]

\* _from2dCutawayCoordinate(pt, start, end)
from2dCutawayCoordinate(p, s, e) ==
  LET c == towardsPoint(s, e, p.x)
  IN  [x |-> c.x, y |-> c.y, elevation |-> p.y]

\* cutawayElevationType(a, polys)
cutawayElevationType(a, polys) ==
  IF \E j \in 1..Len(polys) : PolyContains(polys[j], a) THEN UNDERGROUND
  ELSE IF \E j \in 1..Len(polys) : pointOnPolygonEdge(a, polys[j]) THEN GROUND
  ELSE FLOATING

\* ------------------------------------------------------------------------
\* polygonsIntersections(a, b, combinedPolys, skipPoly)
\* ------------------------------------------------------------------------
\* The crossings of a|b with polygon j, in edge order; a crossing at a itself
\* (t0 = 0) is skipped.
PolyIxs(polys, j, a, b) ==
  LET poly == polys[j]
      idx == SelectSeq([i \in 1..Len(poly) |-> i],
               LAMBDA i : /\ LineSegmentIntersects(a, b, EdgeA(poly, i), EdgeB(poly, i))
                          /\ LineLineIntersection(a, b, EdgeA(poly, i), EdgeB(poly, i)).t0 # Rat(0))
  IN  IF ~PolyLineSegmentIntersects(poly, a, b) THEN <<>>
      ELSE [n \in 1..Len(idx) |->
              LET ix == LineLineIntersection(a, b, EdgeA(poly, idx[n]), EdgeB(poly, idx[n]))
              IN  [x |-> ix.x, y |-> ix.y, t0 |-> ix.t0, edge |-> idx[n], poly |-> j]]

RECURSIVE AllIxs(_, _, _, _, _)
AllIxs(polys, j, a, b, skipPoly) ==
  IF j > Len(polys) THEN <<>>
  ELSE (IF j = skipPoly THEN <<>> ELSE PolyIxs(polys, j, a, b))
       \o AllIxs(polys, j + 1, a, b, skipPoly)

\* Array.prototype.sort((a, b) => a.t0 - b.t0): stable.
RECURSIVE InsertByT0(_, _)
InsertByT0(sorted, ix) ==
  IF sorted = <<>> THEN <<ix>>
  ELSE IF RLt(ix.t0, sorted[Len(sorted)].t0)
       THEN Append(InsertByT0(SubSeq(sorted, 1, Len(sorted) - 1), ix), sorted[Len(sorted)])
       ELSE Append(sorted, ix)

RECURSIVE SortByT0(_)
SortByT0(s) ==
  IF s = <<>> THEN <<>>
  ELSE InsertByT0(SortByT0(SubSeq(s, 1, Len(s) - 1)), s[Len(s)])

polygonsIntersections(a, b, polys, skipPoly) ==
  SortByT0(AllIxs(polys, 1, a, b, skipPoly))

\* ------------------------------------------------------------------------
\* State
\* ------------------------------------------------------------------------
VARIABLES
  op,            \* the call under way: "path", "ground", "type", "roundtrip",
                 \* "anchor"
  pc,            \* "start", "march", "post", "ground", "ground_loop", "type",
                 \* "roundtrip", "anchor", "done"
  start, end,    \* constructRegionsPath's start and end (canvas points)
  zones,         \* the regions passed in
  flying, burrowing,   \* "true", "false" or "unset"
  waypoint,      \* nearestGroundElevation's waypoint
  polys,         \* combinedPolys
  end2d,
  endType,       \* the result of elevationType (of the end, in constructRegionsPath)
  destPoly,
  currPosition, currEnd, currPoly, currPolyIndex,
  iter, waypoints,
  currElevation, maxElevation,
  result,        \* the waypoints returned by constructRegionsPath; the point
                 \* returned by _from2dCutawayCoordinate
  groundElevation,     \* the number returned by nearestGroundElevation
  errorLogged,   \* console.error was called
  returned,      \* the calls of constructRegionsPath that returned before the
                 \* call under way: their arguments and their results
  anchor, level,       \* a TerrainLevel: its terrain's anchor choice, its level
  layerElevations,     \* the scene's LAYER_ELEVATIONS flag, <<>> when not stored
  canvasElevation,     \* canvas.elevation?.elevationAt(location)
  location,      \* the location passed to elevationRange, "none" when left out
  anchorE        \* elevationRange's anchorE, the value of getAnchorElevation

vars == <<op, pc, start, end, zones, flying, burrowing, waypoint, polys, end2d,
          endType, destPoly, currPosition, currEnd, currPoly, currPolyIndex,
          iter, waypoints, currElevation, maxElevation, result,
          groundElevation, errorLogged, returned,
          anchor, level, layerElevations, canvasElevation, location, anchorE>>

\* The arguments of the call under way and the calls before it: no step of a
\* call changes them.
inputs == <<op, start, end, zones, flying, burrowing, returned>>
\* The TerrainLevel, its scene, and what elevationRange computes.
anchorVars == <<anchor, level, layerElevations, canvasElevation, location, anchorE>>
marchVars == <<polys, end2d, endType, destPoly, currPosition, currEnd, currPoly,
               currPolyIndex, waypoints>>

\* get sceneFloor(): the scene's background elevation flag, 0 when unset.
sceneFloor == 0

Flags == {"true", "false", "unset"}
Truthy(f) == f = "true"

\* Object identities of the cutaway points the march handles: the last
\* waypoint is changed in place after the march.
StartObj == 1
EndObj == 2
VertexObj(j, k) == 100 * j + k
EdgeBObj(j, i) == 100 * j + 50 + i
IxObj(it, n) == 1000000 + 100 * it + n
DropObj(it) == 5000000 + it
Obj(p, o) == [x |-> p.x, y |-> p.y, o |-> o]
NoPoint == [x |-> Rat(0), y |-> Rat(0), o |-> 0]

\* ------------------------------------------------------------------------
\* Inputs of the model
\* ------------------------------------------------------------------------
\* Elevations of a start or an end: one below the scene floor up to MaxElev.
Elevs == (-1)..MaxElev

\* Planar lengths of the moves, in halves: none (a vertical move), less than
\* one unit, a length that is no integer, an integer length.
DistHalves == {0, 1, 2 * MaxDist - 1, 2 * MaxDist}

\* A plateau over lo..hi with surface e, resting on the floor (b = 0) or
\* floating with its bottom at b > 0.  A floating plateau does not start
\* under the start of the move.
Plateaus ==
  {Zone("plateau", lo, hi, b, e, e, 0) :
     lo \in 0..(MaxDist - 1), hi \in 1..MaxDist, b \in 0..(MaxElev - 1), e \in 1..MaxElev}

\* A plateau on the line of travel beyond the end of every move.
FarPlateau == Zone("plateau", MaxDist + 1, MaxDist + 2, 0, 1, 1, sceneFloor)

PathZoneSets ==
  {<<>>, <<Zone("stairs", 1, 2, 0, 1, 1, 0)>>, <<FarPlateau>>}
  \cup {<<z>> : z \in {z \in Plateaus : /\ z.lo < z.hi /\ z.bottom < z.elev
                                        /\ (z.bottom > sceneFloor => z.lo > 0)}}

\* nearestGroundElevation's inputs: zones over the whole line of travel, a
\* plateau or a ramp each, holding the elevations b..t, with surface e (a
\* plateau) or rising from the floor to e (a ramp).  The surface of a zone
\* need not lie in b..t.  One zone, or two zones that hold the same
\* elevations from the floor or below it up to t.  The waypoint is one unit
\* before the far end of the zones.
GroundZones ==
  {Zone(k, 0, MaxDist, b, t, e, sceneFloor) :
     k \in {"plateau", "ramp"}, b \in (-1)..1, t \in 1..MaxElev, e \in 1..MaxElev}

GroundZoneSets ==
  {<<>>} \cup {<<z>> : z \in GroundZones}
  \cup {p \in GroundZones \X GroundZones :
          p[1].bottom <= 0 /\ p[2].bottom <= 0 /\ p[1].top = p[2].top}

GroundDist == Rat(MaxDist - 1)

GroundElevs ==
  {Rat(e) : e \in (-2)..(MaxElev + 1)}
  \cup {elevationUponEntry(z, CanvasPt(GroundDist, Rat(0))) : z \in GroundZones}

\* JavaScript values: a number, a function (by name), undefined.
Number(n) == [type |-> "number", value |-> n]
Function(name) == [type |-> "function", value |-> name]
Undef == [type |-> "undefined", value |-> 0]

\* No TerrainLevel is involved in the call.
NoTerrainLevel ==
  /\ anchor = "ABSOLUTE"
  /\ level = 0
  /\ layerElevations = <<>>
  /\ canvasElevation = Undef
  /\ location = "none"
  /\ anchorE = Number(0)

InitCallLocals ==
  /\ polys = <<>>
  /\ end2d = NoPoint
  /\ endType = GROUND
  /\ destPoly = -1
  /\ currPosition = NoPoint
  /\ currEnd = NoPoint
  /\ currPoly = 0
  /\ currPolyIndex = -1
  /\ iter = 0
  /\ waypoints = <<>>
  /\ currElevation = Rat(0)
  /\ maxElevation = Rat(0)
  /\ result = <<>>
  /\ groundElevation = Rat(0)
  /\ errorLogged = FALSE
  /\ returned = <<>>

InitLocals ==
  /\ NoTerrainLevel
  /\ InitCallLocals

\* A call of constructRegionsPath(start, end, {regions, flying, burrowing}).
InitPath ==
  /\ op = "path"
  /\ pc = "start"
  /\ \E d \in DistHalves, se \in Elevs, ee \in Elevs :
       /\ start = CanvasPt(Rat(0), Rat(se))
       /\ end = CanvasPt(Half(d), Rat(ee))
  /\ zones \in PathZoneSets
  /\ flying \in Flags
  /\ burrowing \in Flags
  /\ waypoint = end
  /\ InitLocals

\* A call of nearestGroundElevation(waypoint, {regions, burrowing}).
InitGround ==
  /\ op = "ground"
  /\ pc = "ground"
  /\ \E e \in GroundElevs : waypoint = CanvasPt(GroundDist, e)
  /\ start = waypoint
  /\ end = waypoint
  /\ zones \in GroundZoneSets
  /\ flying = "unset"
  /\ burrowing \in {"true", "false"}
  /\ InitLocals

\* elevationType's inputs: every zone of nearestGroundElevation's inputs and a
\* stairs zone, alone or in pairs, in both orders.
TypeZones == GroundZones \cup {Zone("stairs", 0, MaxDist, 0, MaxElev, 1, sceneFloor)}

TypeZoneSets ==
  {<<>>} \cup {<<z>> : z \in TypeZones} \cup (TypeZones \X TypeZones)

\* A call of elevationType(waypoint, regions).
InitType ==
  /\ op = "type"
  /\ pc = "type"
  /\ \E e \in GroundElevs : waypoint = CanvasPt(GroundDist, e)
  /\ start = waypoint
  /\ end = waypoint
  /\ zones \in TypeZoneSets
  /\ flying = "unset"
  /\ burrowing = "unset"
  /\ InitLocals

\* The conversion to cutaway coordinates and back: a start at distance 0 or 1
\* along the line of travel, an end elsewhere on the line (before or after
\* the start), and a point of the line from one unit behind distance 0 to one
\* unit beyond the farthest end.
RoundTripHalves == (-2)..(2 * MaxDist + 2)

InitRoundTrip ==
  /\ op = "roundtrip"
  /\ pc = "roundtrip"
  /\ \E ds \in 0..1, de \in DistHalves, se \in Elevs :
       /\ start = CanvasPt(Rat(ds), Rat(se))
       /\ end = CanvasPt(Half(de), Rat(0))
  /\ ~regionWaypointsXYEqual(start, end)
  /\ \E h \in RoundTripHalves, e \in Elevs : waypoint = CanvasPt(Half(h), Rat(e))
  /\ zones = <<>>
  /\ flying = "unset"
  /\ burrowing = "unset"
  /\ InitLocals

Init == InitPath \/ InitGround \/ InitType \/ InitRoundTrip

\* Inputs that run into the iteration caps.  A march that never stops: a
\* flyer on top of a plateau that floats above the start, bound for a point
\* below the plateau's underside and past its far side.
CapPlateau ==
  Zone("plateau", 0, MaxDist - 1, MaxElev, MaxElev + 1, MaxElev + 1, sceneFloor)

InitPathCap ==
  /\ op = "path"
  /\ pc = "start"
  /\ start = CanvasPt(Rat(0), Rat(MaxElev + 1))
  /\ end = CanvasPt(Half(2 * MaxDist - 1), Rat(MaxElev - 1))
  /\ zones = <<CapPlateau>>
  /\ flying \in Flags
  /\ burrowing = "unset"
  /\ waypoint = end
  /\ InitLocals

\* A fixed point that never settles: one zone holds every elevation and has
\* its surface at 1, the other holds the elevations up to 1 and has its
\* surface at the top; each sends a token on the other's surface back.
CapLow == Zone("plateau", 0, MaxDist, 0, MaxElev, 1, sceneFloor)

CapHigh == Zone("plateau", 0, MaxDist, 0, 1, MaxElev, sceneFloor)

InitGroundCap ==
  /\ op = "ground"
  /\ pc = "ground"
  /\ \E e \in GroundElevs : waypoint = CanvasPt(GroundDist, e)
  /\ start = waypoint
  /\ end = waypoint
  /\ zones \in {<<CapLow, CapHigh>>, <<CapHigh, CapLow>>}
  /\ flying = "unset"
  /\ burrowing \in {"true", "false"}
  /\ InitLocals

\* Calls of constructRegionsPath made one after another on the same handler:
\* no more than MaxCalls of them, each with any of these arguments: a plateau
\* in the middle of the line of travel or all along it, a vertical move or a
\* move of the full length, from the floor to the floor or to the top
\* elevation, flying or not.
MaxCalls == 3

CallZoneSets ==
  {<<Zone("plateau", 1, 2, 0, 1, 1, sceneFloor)>>,
   <<Zone("plateau", 0, MaxDist, 0, 1, 1, sceneFloor)>>}

CallArguments ==
  {[start |-> CanvasPt(Rat(0), Rat(0)), end |-> CanvasPt(Half(d), Rat(ee)),
    zones |-> z, flying |-> f, burrowing |-> "unset"] :
     d \in {0, 2 * MaxDist}, ee \in {0, MaxElev}, z \in CallZoneSets,
     f \in {"true", "false"}}

InitCalls ==
  /\ op = "path"
  /\ pc = "start"
  /\ \E a \in CallArguments :
       /\ start = a.start /\ end = a.end /\ zones = a.zones
       /\ flying = a.flying /\ burrowing = a.burrowing
  /\ waypoint = end
  /\ InitLocals

InitCap == InitPath \/ InitGround \/ InitPathCap \/ InitGroundCap

\* ------------------------------------------------------------------------
\* elevationType
\* ------------------------------------------------------------------------
\* Lines 286-304.
ElevationTypeCall ==
  /\ op = "type" /\ pc = "type"
  /\ pc' = "done"
  /\ endType' = elevationType(waypoint, zones, sceneFloor)
  /\ UNCHANGED <<inputs, anchorVars, waypoint, polys, end2d, destPoly, currPosition, currEnd,
                 currPoly, currPolyIndex, iter, waypoints, currElevation, maxElevation,
                 result, groundElevation, errorLogged>>

\* ------------------------------------------------------------------------
\* _to2dCutawayCoordinate and _from2dCutawayCoordinate
\* ------------------------------------------------------------------------
\* Lines 427-443: a point converted to cutaway coordinates and back.
CutawayRoundTrip ==
  /\ op = "roundtrip" /\ pc = "roundtrip"
  /\ pc' = "done"
  /\ currPosition' = Obj(to2dCutawayCoordinate(waypoint, start), 0)
  /\ result' = <<from2dCutawayCoordinate(to2dCutawayCoordinate(waypoint, start),
                                          start, end)>>
  /\ UNCHANGED <<inputs, anchorVars, waypoint, polys, end2d, endType, destPoly, currEnd, currPoly,
                 currPolyIndex, iter, waypoints, currElevation, maxElevation,
                 groundElevation, errorLogged>>

\* ------------------------------------------------------------------------
\* constructRegionsPath
\* ------------------------------------------------------------------------
\* return [start, end]
ReturnPath(path) ==
  /\ pc' = "done"
  /\ result' = path
  /\ UNCHANGED <<inputs, anchorVars, waypoint, marchVars, iter, currElevation, maxElevation,
                 groundElevation, errorLogged>>

\* Variants of the tests below with one condition dropped.
ShortCircuitFlagsOnly(s, e, fly, bur) == Truthy(fly) /\ Truthy(bur)
ShortCircuitEqualOnly(s, e, fly, bur) == regionWaypointsEqual(s, e)

\* The short circuits of the top of constructRegionsPath.
ShortCircuit(s, e, fly, bur) ==
  regionWaypointsEqual(s, e) \/ (Truthy(fly) /\ Truthy(bur))

\* A variant of the test below that never holds.
NoRegionsIgnored(regions) == FALSE

\* if ( !regions.length ) return [start, end]
NoRegions(regions) == Len(regions) = 0

\* A variant of the test below that takes an unset flag for false.
SnapsEndUnlessTrue(fly, bur, eType) ==
  \/ (fly # "true" /\ eType = FLOATING)
  \/ (bur # "true" /\ eType = UNDERGROUND)

\* The elevation-only case: whether the end is reset to the ground.
SnapsEnd(fly, bur, eType) ==
  \/ (fly = "false" /\ eType = FLOATING)
  \/ (bur = "false" /\ eType = UNDERGROUND)

\* A variant of the first interim target that takes an unset flag for false.
InitialCurrEndFalsy(fly, bur, startType, start2d, e2d) ==
  IF \/ (bur # "true" /\ startType = UNDERGROUND)
     \/ (fly # "true" /\ startType = FLOATING)
  THEN Obj(Pt(start2d.x, Rat(sceneFloor)), DropObj(0))
  ELSE e2d

\* The first interim target of the march.
InitialCurrEnd(fly, bur, startType, start2d, e2d) ==
  IF \/ (bur = "false" /\ startType = UNDERGROUND)
     \/ (fly = "false" /\ startType = FLOATING)
  THEN Obj(Pt(start2d.x, Rat(sceneFloor)), DropObj(0))
  ELSE e2d

\* destPoly: the polygon that holds the end, when the end is underground.
DestPoly(eType, e2d, ps) ==
  IF eType = UNDERGROUND
     /\ \E j \in 1..Len(ps) : PolyContains(ps[j], e2d) \/ pointOnPolygonEdge(e2d, ps[j])
  THEN CHOOSE j \in 1..Len(ps) :
         /\ PolyContains(ps[j], e2d) \/ pointOnPolygonEdge(e2d, ps[j])
         /\ \A k \in 1..(j - 1) :
              ~(PolyContains(ps[k], e2d) \/ pointOnPolygonEdge(e2d, ps[k]))
  ELSE -1

\* Lines 73-165: everything before the march loop.
PathBegin ==
  /\ op = "path" /\ pc = "start"
  /\ LET regions == elevatedRegions(zones)
         eType == elevationType(end, regions, sceneFloor)
     IN  IF ShortCircuit(start, end, flying, burrowing) THEN ReturnPath(<<start, end>>)
         ELSE IF NoRegions(regions) THEN ReturnPath(<<start, end>>)
         ELSE IF regionWaypointsXYEqual(start, end)
         THEN IF SnapsEnd(flying, burrowing, eType)
              THEN /\ pc' = "ground"
                   /\ waypoint' = end
                   /\ endType' = eType
                   /\ UNCHANGED <<inputs, anchorVars, polys, end2d, destPoly, currPosition, currEnd,
                                  currPoly, currPolyIndex, waypoints, iter, currElevation,
                                  maxElevation, result, groundElevation, errorLogged>>
              ELSE ReturnPath(<<start, end>>)
         ELSE LET combined == toPolygons(polys,
                                         regions2dCutaway(start, end, regions, sceneFloor))
                  start2d == Obj(to2dCutawayCoordinate(start, start), StartObj)
                  e2d0 == to2dCutawayCoordinate(end, start)
                  e2d == Obj(Pt(RFloor(e2d0.x), e2d0.y), EndObj)
                  ccw == RLt(start2d.x, e2d.x)
                  oriented == [j \in 1..Len(combined) |->
                                 IF ccw THEN combined[j] ELSE Reverse(combined[j])]
              IN  IF Len(combined) = 0 THEN ReturnPath(<<start, end>>)
                  ELSE /\ pc' = "march"
                       /\ polys' = oriented
                       /\ end2d' = e2d
                       /\ endType' = eType
                       /\ destPoly' = DestPoly(eType, e2d, oriented)
                       /\ currPosition' = start2d
                       /\ currEnd' = InitialCurrEnd(flying, burrowing,
                                        cutawayElevationType(start2d, oriented), start2d, e2d)
                       /\ currPoly' = 0
                       /\ currPolyIndex' = -1
                       /\ iter' = 0
                       /\ waypoints' = <<>>
                       /\ UNCHANGED <<inputs, anchorVars, waypoint, currElevation, maxElevation,
                                      result, groundElevation, errorLogged>>

\* The handler has no property ix: "this.ix" in the search for the other
\* crossing is undefined, which differs from every crossing.
thisIx == 0

\* ixs.find(thisIx => this.ix !== thisIx && thisIx.poly === currPoly): the
\* index of the crossing found, 0 when there is none.
OtherIx(ixs, cpoly) ==
  LET ok == {n \in 1..Len(ixs) : thisIx # n /\ ixs[n].poly = cpoly}
  IN  IF ok = {} THEN 0 ELSE CHOOSE n \in ok : \A m \in ok : n <= m

\* currPoly._pts.findIndex(pt => pt.almostEqual(currEnd)), 0-based, -1 when
\* no point matches.
FindIndex(poly, p) ==
  LET ok == {k \in 1..Len(poly) : poly[k].x = p.x /\ poly[k].y = p.y}
  IN  IF ok = {} THEN -1 ELSE (CHOOSE k \in ok : \A m \in ok : k <= m) - 1

SamePoint(a, b) == a.x = b.x /\ a.y = b.y

\* What one iteration leaves behind: where the loop goes next ("march" after
\* a continue or the end of the body, "post" after the break), the cursor,
\* the interim target, the tracked polygon and its index, the waypoints.
Iteration(to, pos, ce, poly, idx, wps) ==
  [to |-> to, pos |-> pos, ce |-> ce, poly |-> poly, idx |-> idx, wps |-> wps]

\* Step 1: the interim target after the test for a move backwards.
BackwardsTarget(fly, ce, cp, e2d, it) ==
  IF RLt(ce.x, cp.x)
  THEN IF Truthy(fly) THEN e2d ELSE Obj(Pt(cp.x, Rat(sceneFloor)), DropObj(it))
  ELSE ce

\* A variant of step 2 that never redirects the march.
FlyingLowerIgnored(fly, ce, cp, e2d) == FALSE

\* Step 2: flying, and the interim target would take us lower.
FlyingLower(fly, ce, cp, e2d) ==
  Truthy(fly) /\ RLt(ce.y, e2d.y) /\ RLt(ce.y, cp.y)

\* Step 4: line of sight to the end, and the end can be reached directly.
LineOfSightJump(fly, bur, cp, e2d, eType, dPoly, cPoly, ps) ==
  /\ Truthy(fly) \/ Truthy(bur)
  /\ ~\E j \in 1..Len(ps) : PolyLinesCross(ps[j], cp, e2d)
  /\ \/ (Truthy(fly) /\ eType = FLOATING)
     \/ (Truthy(bur) /\ dPoly = cPoly)

\* A variant of step 5 that never jumps.
BurrowThroughIgnored(bur, ixs, cpoly) == 0

\* Step 5, burrowing: the crossing the cursor jumps to, 0 when it stays.
BurrowThrough(bur, ixs, cpoly) ==
  IF Truthy(bur) THEN OtherIx(ixs, cpoly) ELSE 0

\* Step 6: cycle to the next point of the tracked polygon.
NextPolyPoint(ps, ce, poly, idx, wps) ==
  LET idx1 == IF idx + 1 >= Len(ps[poly]) THEN 0 ELSE idx + 1
  IN  Iteration("march", ce, Obj(ps[poly][idx1 + 1], VertexObj(poly, idx1)), poly, idx1, wps)

\* Step 5 once the cursor has moved to the nearest crossing ixs[1] of
\* polygon cpoly; other is the crossing a burrower jumps to.
AtCrossing(ps, e2d, ixs, cpoly, other, idx, wps, it) ==
  IF other # 0
  THEN Iteration("march", Obj(ixs[other], IxObj(it, other)), e2d, 0, idx, wps)
  ELSE NextPolyPoint(ps, Obj(EdgeB(ps[cpoly], ixs[1].edge), EdgeBObj(cpoly, ixs[1].edge)),
                     cpoly, FindIndex(ps[cpoly], EdgeB(ps[cpoly], ixs[1].edge)), wps)

\* Step 5: the crossings ixs of the polygons between the cursor and the
\* interim target.
ToCrossing(ps, e2d, bur, ixs, ce, idx, wps, it) ==
  IF Len(ixs) = 0 THEN Iteration("march", ce, ce, 0, idx, wps)
  ELSE AtCrossing(ps, e2d, ixs, ixs[1].poly, BurrowThrough(bur, ixs, ixs[1].poly), idx,
                  Append(wps, Obj(ixs[1], IxObj(it, 1))), it)

\* A variant of the break test that asks for a cursor beyond the end.
ReachedEndBeyond(cp, e2d) == RLt(e2d.x, cp.x)

\* Line 217: the cursor's distance has reached the end's.
ReachedEnd(cp, e2d) == RLe(e2d.x, cp.x)

\* The loop body from the break on (lines 217-260).
FromBreak(ps, e2d, eType, dPoly, fly, bur, cp, ce, poly, idx, wps, it) ==
  IF ReachedEnd(cp, e2d) THEN Iteration("post", cp, ce, poly, idx, wps)
  ELSE IF LineOfSightJump(fly, bur, cp, e2d, eType, dPoly, poly, ps)
  THEN Iteration("march", ce, ce, 0, idx, wps)
  ELSE IF poly # 0 THEN NextPolyPoint(ps, ce, poly, idx, wps)
  ELSE ToCrossing(ps, e2d, bur, polygonsIntersections(cp, ce, ps, poly), ce, idx, wps, it)

\* Step 3: at the interim target; the true end is the next one.
FromStep3(ps, e2d, eType, dPoly, fly, bur, cp, ce, poly, idx, wps, it) ==
  IF SamePoint(cp, ce)
  THEN FromBreak(ps, e2d, eType, dPoly, fly, bur, cp, e2d, 0, idx, wps, it)
  ELSE FromBreak(ps, e2d, eType, dPoly, fly, bur, cp, ce, poly, idx, wps, it)

FromStep2(ps, e2d, eType, dPoly, fly, bur, cp, ce, poly, idx, wps, it) ==
  IF FlyingLower(fly, ce, cp, e2d)
  THEN FromStep3(ps, e2d, eType, dPoly, fly, bur, cp, e2d, 0, idx, wps, it)
  ELSE FromStep3(ps, e2d, eType, dPoly, fly, bur, cp, ce, poly, idx, wps, it)

\* One iteration of the loop body (lines 168-260) from the cursor cp, the
\* interim target ce and the tracked polygon poly.
MarchIteration(ps, e2d, eType, dPoly, fly, bur, cp, ce, poly, idx, wps, it) ==
  FromStep2(ps, e2d, eType, dPoly, fly, bur, cp,
            BackwardsTarget(fly, ce, cp, e2d, it),
            IF RLt(ce.x, cp.x) THEN 0 ELSE poly,
            idx, Append(wps, cp), it)

\* The march loop (lines 167-261): one iteration, or the exit at MAX_ITER.
MarchStep ==
  /\ op = "path" /\ pc = "march"
  /\ IF iter >= MAX_ITER
     THEN /\ pc' = "post"
          /\ UNCHANGED <<inputs, anchorVars, waypoint, marchVars, iter, currElevation, maxElevation,
                         result, groundElevation, errorLogged>>
     ELSE \E r \in {MarchIteration(polys, end2d, endType, destPoly, flying, burrowing,
                                    currPosition, currEnd, currPoly, currPolyIndex,
                                    waypoints, iter + 1)} :
            /\ pc' = r.to
            /\ iter' = iter + 1
            /\ currPosition' = r.pos
            /\ currEnd' = r.ce
            /\ currPoly' = r.poly
            /\ currPolyIndex' = r.idx
            /\ waypoints' = r.wps
            /\ UNCHANGED <<inputs, anchorVars, waypoint, polys, end2d, endType, destPoly,
                           currElevation, maxElevation, result, groundElevation,
                           errorLogged>>

\* The loop's state between two iterations: what the last iteration left
\* behind, and the number of iterations made.
LoopState(r, it) == [r |-> r, iter |-> it]

\* The march loop run for n more steps from the loop state s: it stops short
\* of n after the break.  The first half of the steps, then the rest.
RECURSIVE MarchLoop(_, _, _, _, _, _, _, _)
MarchLoop(n, ps, e2d, eType, dPoly, fly, bur, s) ==
  IF n = 0 \/ s.r.to = "post" THEN s
  ELSE IF n = 1
  THEN LoopState(MarchIteration(ps, e2d, eType, dPoly, fly, bur, s.r.pos, s.r.ce,
                                s.r.poly, s.r.idx, s.r.wps, s.iter + 1),
                 s.iter + 1)
  ELSE CHOOSE u \in {MarchLoop(n - (n \div 2), ps, e2d, eType, dPoly, fly, bur, t) :
                       t \in {MarchLoop(n \div 2, ps, e2d, eType, dPoly, fly, bur, s)}} :
         TRUE

\* The march loop (lines 167-261) as a whole, from its entry to the break or
\* to the exit at MAX_ITER.
MarchRun ==
  /\ op = "path" /\ pc = "march" /\ iter = 0
  /\ \E s \in {MarchLoop(MAX_ITER, polys, end2d, endType, destPoly, flying, burrowing,
                          LoopState(Iteration("march", currPosition, currEnd, currPoly,
                                              currPolyIndex, waypoints), 0))} :
       /\ pc' = "post"
       /\ iter' = s.iter
       /\ currPosition' = s.r.pos
       /\ currEnd' = s.r.ce
       /\ currPoly' = s.r.poly
       /\ currPolyIndex' = s.r.idx
       /\ waypoints' = s.r.wps
       /\ UNCHANGED <<inputs, anchorVars, waypoint, polys, end2d, endType, destPoly,
                      currElevation, maxElevation, result, groundElevation,
                      errorLogged>>

\* "Undo rounding of the end point": the last waypoint object gets the end's
\* x when it is within 0.51 of it; every entry that is the same object changes
\* with it.
UndoRounding(wps, e2d) ==
  LET last == wps[Len(wps)]
  IN  IF AlmostEqual(e2d.x, last.x, Norm(51, 100))
      THEN [k \in 1..Len(wps) |->
              IF wps[k].o = last.o THEN [wps[k] EXCEPT !.x = e2d.x] ELSE wps[k]]
      ELSE wps

\* A variant of the test after the loop that never logs.
LogsErrorNever(it) == FALSE

\* Line 262: the test for console.error after the loop.
LogsError(it) == it >= MAX_ITER

\* Lines 262-274: after the loop.
PathFinish ==
  /\ op = "path" /\ pc = "post"
  /\ pc' = "done"
  /\ errorLogged' = LogsError(iter)
  /\ LET wps == UndoRounding(waypoints, end2d)
     IN  /\ waypoints' = wps
         /\ result' = [k \in 1..Len(wps) |-> from2dCutawayCoordinate(wps[k], start, end)]
  /\ UNCHANGED <<inputs, anchorVars, waypoint, polys, end2d, endType, destPoly,
                 currPosition, currEnd,
                 currPoly, currPolyIndex, iter, currElevation, maxElevation,
                 groundElevation>>

\* ------------------------------------------------------------------------
\* nearestGroundElevation
\* ------------------------------------------------------------------------
\* region.segmentizeMovement([waypoint, waypoint at the floor]): the first
\* segment, when it enters the zone on the vertical fall from elevation e to
\* the floor: <<elevation of the entry>>, or <<>> when there is none.
FallEntry(z, p, e, floor) ==
  IF ~(RLe(Rat(z.lo), Along(p)) /\ RLe(Along(p), Rat(z.hi))) THEN <<>>
  ELSE IF RLt(Rat(z.top), e) /\ RLe(Rat(floor), Rat(z.top)) /\ RLe(Rat(z.bottom), Rat(z.top))
       THEN <<RMax(Rat(z.top), Rat(floor))>> \o <<>>
  ELSE IF RLt(e, Rat(z.bottom)) /\ RLe(Rat(z.bottom), Rat(floor))
       THEN <<Rat(z.bottom)>>
  ELSE <<>>

\* regionsIxs, sorted by dist = currElevation - entry elevation (stable): the
\* index of the region of the first entry, 0 when no region is entered.
FirstFallRegion(regions, p, e, floor) ==
  LET hit == {j \in 1..Len(regions) : FallEntry(regions[j], p, e, floor) # <<>>}
      dist(j) == RSub(e, FallEntry(regions[j], p, e, floor)[1])
  IN  IF hit = {} THEN 0
      ELSE CHOOSE j \in hit :
             \A k \in hit : RLt(dist(j), dist(k)) \/ (dist(j) = dist(k) /\ j <= k)

\* A variant of the fixed point's maximum that counts only the regions whose
\* entry elevation lies above the elevation e.
RECURSIVE MaxEntryElevationAbove(_, _, _, _, _)
MaxEntryElevationAbove(regions, i, p, e, acc) ==
  IF i > Len(regions) THEN acc
  ELSE IF ~testPoint(regions[i], p, e) \/ ~RLt(e, elevationUponEntry(regions[i], p))
       THEN MaxEntryElevationAbove(regions, i + 1, p, e, acc)
  ELSE MaxEntryElevationAbove(regions, i + 1, p, e,
                              RMax(acc, elevationUponEntry(regions[i], p)))

\* The highest entry elevation of the regions that hold the waypoint at
\* elevation e (Number.NEGATIVE_INFINITY when none does), from region i on.
RECURSIVE MaxEntryElevation(_, _, _, _, _)
MaxEntryElevation(regions, i, p, e, acc) ==
  IF i > Len(regions) THEN acc
  ELSE IF ~testPoint(regions[i], p, e) THEN MaxEntryElevation(regions, i + 1, p, e, acc)
  ELSE MaxEntryElevation(regions, i + 1, p, e, RMax(acc, elevationUponEntry(regions[i], p)))

\* return from nearestGroundElevation; in the elevation-only case of
\* constructRegionsPath the end becomes { x: end.x, elevation: endE }.
GroundReturn(value, it, curr, max, err) ==
  /\ pc' = "done"
  /\ groundElevation' = value
  /\ iter' = it
  /\ currElevation' = curr
  /\ maxElevation' = max
  /\ errorLogged' = err
  /\ result' = IF op = "path"
               THEN <<start, [x |-> end.x, y |-> Undefined, elevation |-> value]>>
               ELSE result
  /\ UNCHANGED <<inputs, anchorVars, waypoint, marchVars>>

GroundLoop(e) ==
  /\ pc' = "ground_loop"
  /\ iter' = 0
  /\ currElevation' = e
  /\ maxElevation' = e
  /\ UNCHANGED <<inputs, anchorVars, waypoint, marchVars, result, groundElevation, errorLogged>>

\* Lines 318-359: options 1 and 2.
GroundBegin ==
  /\ pc = "ground"
  /\ LET regions == elevatedRegions(zones)
         terrainFloor == Rat(sceneFloor)
         e0 == waypoint.elevation
         bur == Truthy(burrowing)
         inRegion == \E j \in 1..Len(regions) : testPoint(regions[j], waypoint, e0)
         first == FirstFallRegion(regions, waypoint, e0, sceneFloor)
     IN  IF bur /\ inRegion THEN GroundReturn(e0, iter, e0, maxElevation, FALSE)
         ELSE IF inRegion THEN GroundLoop(e0)
         ELSE IF e0 = terrainFloor
              THEN GroundReturn(terrainFloor, iter, e0, maxElevation, FALSE)
         ELSE IF first = 0
              THEN GroundReturn(terrainFloor, iter, e0, maxElevation, FALSE)
         ELSE LET newE == elevationUponEntry(regions[first], waypoint)
              IN  IF bur THEN GroundReturn(newE, iter, newE, maxElevation, FALSE)
                  ELSE GroundLoop(newE)

\* A variant of the loop condition without the cap.
GroundRepeatsUncapped(max, curr, it) == max # curr

\* Line 369: the condition of the do-while loop.
GroundRepeats(max, curr, it) == max # curr /\ it < MAX_ITER

\* One pass of the do-while loop (lines 360-369), and lines 371-372 after it.
GroundIterate ==
  /\ pc = "ground_loop"
  /\ LET it == iter + 1
         curr == maxElevation
         max == MaxEntryElevation(elevatedRegions(zones), 1, waypoint, curr, NegInf)
     IN  IF GroundRepeats(max, curr, it)
         THEN /\ pc' = "ground_loop"
              /\ iter' = it
              /\ currElevation' = curr
              /\ maxElevation' = max
              /\ UNCHANGED <<inputs, anchorVars, waypoint, marchVars, result, groundElevation,
                             errorLogged>>
         ELSE GroundReturn(curr, it, curr, max, it >= MAX_ITER)

\* ------------------------------------------------------------------------
\* One call after another
\* ------------------------------------------------------------------------
\* The call under way has returned and the next call is made.  What the
\* returned call left in its local variables and in the polygons it built is
\* still there: the next call has to set whatever it reads.
CallAgain ==
  /\ op = "path" /\ pc = "done"
  /\ Len(returned) + 1 < MaxCalls
  /\ returned' = Append(returned, [start |-> start, end |-> end, zones |-> zones,
                                    flying |-> flying, burrowing |-> burrowing,
                                    result |-> result])
  /\ pc' = "start"
  /\ \E a \in CallArguments :
       /\ start' = a.start /\ end' = a.end /\ zones' = a.zones
       /\ flying' = a.flying /\ burrowing' = a.burrowing
  /\ UNCHANGED <<op, anchorVars, waypoint, marchVars, iter, currElevation, maxElevation,
                 result, groundElevation, errorLogged>>

\* ------------------------------------------------------------------------
\* TerrainLevel
\* ------------------------------------------------------------------------
\* FLAGS.ANCHOR.CHOICES
AnchorChoices == {"ABSOLUTE", "RELATIVE_TO_TERRAIN", "RELATIVE_TO_LAYER"}

\* The number of layers of a scene.
Layers == 8

\* What a scene stores as LAYER_ELEVATIONS: one elevation per layer.
StoredLayerElevations ==
  {[i \in 1..Layers |-> e * (i - 1)] : e \in 0..MaxElev}

\* TerrainLevel#_layerElevation(): the stored elevation of the level, from
\* an array of zeros when the scene stores none.
layerElevation(flag, lvl) ==
  IF flag = <<>> THEN [i \in 1..Layers |-> 0][lvl + 1] ELSE flag[lvl + 1]

\* TerrainLevel#_canvasElevation(location)
canvasElevationAt(cE) == IF cE.type = "undefined" THEN Number(0) ELSE cE

\* TerrainLevel#getAnchorElevation(location): for RELATIVE_TO_LAYER the
\* method _layerElevation itself is returned, it is not called.
getAnchorElevation(a, loc, cE) ==
  CASE a = "ABSOLUTE" -> Number(0)
    [] a = "RELATIVE_TO_TERRAIN" ->
         IF loc # "none" THEN canvasElevationAt(cE) ELSE Number(0)
    [] a = "RELATIVE_TO_LAYER" -> Function("_layerElevation")

\* A call of elevationRange(location) on a TerrainLevel.
InitAnchor ==
  /\ op = "anchor"
  /\ pc = "anchor"
  /\ anchor \in AnchorChoices
  /\ level \in 0..(Layers - 1)
  /\ layerElevations \in {<<>>} \cup StoredLayerElevations
  /\ canvasElevation \in {Undef} \cup {Number(e) : e \in Elevs}
  /\ location \in {"none", "point"}
  /\ anchorE = Undef
  /\ start = CanvasPt(Rat(0), Rat(0))
  /\ end = start
  /\ waypoint = start
  /\ zones = <<>>
  /\ flying = "unset"
  /\ burrowing = "unset"
  /\ InitCallLocals

\* Lines 75-78: elevationRange computes anchorE and hands it to the terrain;
\* activeAt goes through elevationRange.
ElevationRange ==
  /\ op = "anchor" /\ pc = "anchor"
  /\ pc' = "done"
  /\ anchorE' = getAnchorElevation(anchor, location, canvasElevation)
  /\ UNCHANGED <<inputs, anchor, level, layerElevations, canvasElevation, location,
                 waypoint, marchVars, iter, currElevation, maxElevation, result,
                 groundElevation, errorLogged>>

NextAnchor == ElevationRange

\* One step of a call.
Next ==
  \/ PathBegin \/ MarchStep \/ PathFinish
  \/ GroundBegin \/ GroundIterate
  \/ ElevationTypeCall
  \/ CutawayRoundTrip

\* One step of a call, the march loop taken as one step.
NextCap ==
  \/ PathBegin \/ MarchRun \/ PathFinish
  \/ GroundBegin \/ GroundIterate

\* One step of a call or the next call, the march loop taken as one step.
NextCalls ==
  \/ PathBegin \/ MarchRun \/ PathFinish
  \/ GroundBegin \/ GroundIterate
  \/ CallAgain

\* ------------------------------------------------------------------------
\* Properties of constructRegionsPath
\* ------------------------------------------------------------------------
\* constructRegionsPath has returned.
Returned == op = "path" /\ pc = "done"

\* The call went past the short circuits and the elevation-only case.
GeneralCase ==
  /\ op = "path"
  /\ ~ShortCircuit(start, end, flying, burrowing)
  /\ ~NoRegions(elevatedRegions(zones))
  /\ ~regionWaypointsXYEqual(start, end)

\* C1: when start and end are equal in x, y and elevation, the path returned
\* is exactly [start, end], whatever the zones and the flags.
C1_EqualEndpoints ==
  (Returned /\ regionWaypointsEqual(start, end)) => result = <<start, end>>

\* Equal start and end above the floor with a plateau among the zones and
\* flying = false: without the short circuit the end would be reset.
C1_Witness ==
  /\ Returned /\ regionWaypointsEqual(start, end)
  /\ zones # <<>> /\ zones[1].kind = "plateau"
  /\ flying = "false" /\ start.elevation = Rat(MaxElev)
  /\ result = <<start, end>>

\* C2: with flying and burrowing both true the path returned is exactly
\* [start, end], and neither the cutaway nor the march nor the ground
\* resolver has run.
C2_FlyingAndBurrowing ==
  (Returned /\ flying = "true" /\ burrowing = "true")
    => /\ result = <<start, end>>
       /\ polys = <<>> /\ iter = 0 /\ waypoints = <<>>

\* Flying and burrowing across a plateau between a start and an end that
\* differ in position.
C2_Witness ==
  /\ Returned /\ flying = "true" /\ burrowing = "true"
  /\ zones # <<>> /\ zones[1].kind = "plateau"
  /\ ~regionWaypointsXYEqual(start, end)
  /\ result = <<start, end>>

\* C3: when no zone sets an elevation the path returned is exactly
\* [start, end], for every start, end and flags.
C3_NoElevatedZones ==
  (Returned /\ elevatedRegions(zones) = <<>>) => result = <<start, end>>

\* A start above the scene floor, flying = false, and a zone that sets no
\* elevation.
C3_Witness ==
  /\ Returned /\ elevatedRegions(zones) = <<>> /\ zones # <<>>
  /\ flying = "false" /\ RLt(Rat(sceneFloor), start.elevation)
  /\ ~regionWaypointsXYEqual(start, end)
  /\ result = <<start, end>>

\* A move that changes the elevation only, with at least one zone that sets an
\* elevation.
PureVertical ==
  /\ op = "path"
  /\ regionWaypointsXYEqual(start, end) /\ start.elevation # end.elevation
  /\ elevatedRegions(zones) # <<>>

\* The end is to be put on the nearest floor.
EndIsSnapped ==
  \/ (flying = "false" /\ elevationType(end, zones, sceneFloor) = FLOATING)
  \/ (burrowing = "false" /\ elevationType(end, zones, sceneFloor) = UNDERGROUND)

\* C12: a pure-vertical move returns two waypoints, the unaltered start and an
\* end that has the elevation returned by nearestGroundElevation(end) when the
\* end is to be snapped, and is the unchanged end otherwise.
C12_PureVertical ==
  (Returned /\ PureVertical) =>
    /\ Len(result) = 2
    /\ result[1] = start
    /\ IF EndIsSnapped
       THEN waypoint = end /\ result[2].elevation = groundElevation
       ELSE result[2] = end

\* An end in the air with flying = false, brought down by the ground resolver.
C12_Witness ==
  /\ Returned /\ PureVertical /\ EndIsSnapped
  /\ flying = "false" /\ burrowing = "unset"
  /\ result[2].elevation = groundElevation
  /\ RLt(groundElevation, end.elevation)

\* The planar distance of a returned waypoint from the start, and of the end.
CutawayDistance(w) == distanceBetween(start, w)
EndDistance == distanceBetween(start, end)

\* C4: in every path returned, the planar distance from the start never
\* decreases from one waypoint to the next (waypoints whose 2D position is
\* incomplete are left out of the comparison).
C4_NonDecreasingDistance ==
  Returned =>
    \A k \in 1..(Len(result) - 1) :
      (result[k].y # Undefined /\ result[k + 1].y # Undefined)
        => RLe(CutawayDistance(result[k]), CutawayDistance(result[k + 1]))

\* C5: in the general case the path returned has at least two waypoints, the
\* first is the start (position and elevation) and the last has the end's 2D
\* position.
C5_Endpoints ==
  (Returned /\ GeneralCase) =>
    /\ Len(result) >= 2
    /\ regionWaypointsEqual(result[1], start)
    /\ regionWaypointsXYEqual(result[Len(result)], end)

\* The plateau scenario: one flat plateau resting on the scene floor, its
\* extent strictly between the start and the end of the move.
PlateauBetween ==
  /\ op = "path" /\ Len(zones) = 1 /\ zones[1].kind = "plateau"
  /\ zones[1].bottom = sceneFloor
  /\ 0 < zones[1].lo /\ zones[1].lo < zones[1].hi
  /\ RLt(Rat(zones[1].hi), EndDistance)

OnFloor(w) == w.elevation = Rat(sceneFloor)
WaypointAt(w, d, e) == CutawayDistance(w) = Rat(d) /\ w.elevation = Rat(e)

\* The path rises from the floor to the plateau's surface where it enters the
\* plateau, later falls back to the floor where it leaves, and ends on the
\* floor.
RiseAndFall ==
  LET z == zones[1]
      n == Len(result)
  IN  /\ \E i \in 1..(n - 1), j \in 1..(n - 1) :
           /\ i < j
           /\ WaypointAt(result[i], z.lo, sceneFloor)
           /\ WaypointAt(result[i + 1], z.lo, z.elev)
           /\ WaypointAt(result[j], z.hi, z.elev)
           /\ WaypointAt(result[j + 1], z.hi, sceneFloor)
      /\ OnFloor(result[n])

\* C6: in the plateau scenario with start and end on the floor and both flags
\* unset, the path rises to the plateau's surface at its near side, falls
\* back to the floor at its far side and ends on the floor.
C6_RiseAndFall ==
  (Returned /\ PlateauBetween /\ OnFloor(start) /\ OnFloor(end)
     /\ flying = "unset" /\ burrowing = "unset") => RiseAndFall

\* C7 as stated: in the plateau scenario with flying = true no waypoint is
\* lower than the higher of the start and end elevations.
C7_NotBelowHigher ==
  (Returned /\ PlateauBetween /\ flying = "true") =>
    \A k \in 1..Len(result) :
      RLe(RMax(start.elevation, end.elevation), result[k].elevation)

\* C7 (amended): in the plateau scenario with flying = true no waypoint is
\* lower than the lower of the start and end elevations.
C7_NotBelowLower ==
  (Returned /\ PlateauBetween /\ flying = "true") =>
    \A k \in 1..Len(result) :
      RLe(RMin(start.elevation, end.elevation), result[k].elevation)

\* Flying from above the floor to an end at the same elevation, over a
\* plateau that is higher: the path climbs the plateau and does not come down
\* to the floor behind it.
C7_Witness ==
  /\ Returned /\ PlateauBetween /\ flying = "true" /\ burrowing # "true"
  /\ start.elevation = end.elevation /\ RLt(Rat(sceneFloor), start.elevation)
  /\ RLt(start.elevation, Rat(zones[1].elev))
  /\ \E k \in 1..Len(result) : result[k].elevation = Rat(zones[1].elev)

\* C8: in the plateau scenario with burrowing = true and start and end on the
\* floor, every waypoint has the start's elevation.
C8_StraightThrough ==
  (Returned /\ PlateauBetween /\ burrowing = "true" /\ OnFloor(start) /\ OnFloor(end)) =>
    \A k \in 1..Len(result) : result[k].elevation = start.elevation

\* Burrowing without flying: the march has met the plateau's near side.
C8_Witness ==
  /\ Returned /\ PlateauBetween /\ burrowing = "true" /\ flying # "true"
  /\ OnFloor(start) /\ OnFloor(end)
  /\ \E k \in 1..Len(result) : CutawayDistance(result[k]) = Rat(zones[1].lo)
  /\ \A k \in 1..Len(result) : result[k].elevation = start.elevation

\* ------------------------------------------------------------------------
\* Properties of nearestGroundElevation
\* ------------------------------------------------------------------------
\* nearestGroundElevation, called on its own, has returned.
GroundReturned == op = "ground" /\ pc = "done"

\* C9: for a point that elevationType classifies GROUND,
\* nearestGroundElevation returns the point's own elevation, burrowing or not.
C9_GroundIsFixed ==
  (GroundReturned /\ elevationType(waypoint, zones, sceneFloor) = GROUND)
    => groundElevation = waypoint.elevation

\* A point above the floor on the surface of two zones, not burrowing: the
\* fixed point ran.
C9_Witness ==
  /\ GroundReturned /\ elevationType(waypoint, zones, sceneFloor) = GROUND
  /\ Len(zones) = 2 /\ RLt(Rat(sceneFloor), waypoint.elevation)
  /\ burrowing = "false" /\ iter > 0
  /\ groundElevation = waypoint.elevation

\* Zone p is a plateau that holds the point at its elevation; zone r is a
\* ramp that holds the point at the plateau's surface and whose surface at the
\* point is higher than the plateau's.
RampOverPlateau(p, r) ==
  /\ zones[p].kind = "plateau" /\ zones[r].kind = "ramp"
  /\ testPoint(zones[p], waypoint, waypoint.elevation)
  /\ testPoint(zones[r], waypoint, Rat(zones[p].elev))
  /\ RLt(Rat(zones[p].elev), elevationUponEntry(zones[r], waypoint))

\* C10: for a point in a plateau with a ramp over it, nearestGroundElevation
\* with burrowing false returns the ramp's surface at the point, in fewer than
\* MAX_ITER iterations and without logging an error.
C10_RampOverPlateau ==
  \A p \in 1..Len(zones), r \in 1..Len(zones) :
    (GroundReturned /\ burrowing = "false" /\ RampOverPlateau(p, r))
      => /\ groundElevation = elevationUponEntry(zones[r], waypoint)
         /\ iter < MAX_ITER /\ ~errorLogged

\* ------------------------------------------------------------------------
\* Properties of elevationType
\* ------------------------------------------------------------------------
\* elevationType, called on its own, has returned.
TypeReturned == op = "type" /\ pc = "done"

\* The zones that set an elevation and hold the waypoint at its elevation.
Holding == {j \in 1..Len(zones) :
              /\ zones[j].kind \in {"plateau", "ramp"}
              /\ testPoint(zones[j], waypoint, waypoint.elevation)}

\* The classification the claim gives.
ClaimedType ==
  IF \E j \in Holding : elevationUponEntry(zones[j], waypoint) # waypoint.elevation
  THEN UNDERGROUND
  ELSE IF Holding # {} THEN GROUND
  ELSE IF waypoint.elevation = Rat(sceneFloor) THEN GROUND
  ELSE FLOATING

\* C11: elevationType returns UNDERGROUND when some zone holds the point and
\* has an entry elevation other than the point's, GROUND when every zone that
\* holds it has the point's elevation as entry elevation or when none holds it
\* and it is at the scene floor, FLOATING otherwise; the zones listed in the
\* opposite order give the same result.
C11_Classification ==
  TypeReturned =>
    /\ endType = ClaimedType
    /\ endType = elevationType(waypoint, Reverse(zones), sceneFloor)

\* Two zones hold the point, the first off its surface and the second on it.
C11_Witness ==
  /\ TypeReturned /\ Len(zones) = 2 /\ Holding = {1, 2}
  /\ elevationUponEntry(zones[1], waypoint) # waypoint.elevation
  /\ elevationUponEntry(zones[2], waypoint) = waypoint.elevation
  /\ endType = UNDERGROUND

\* The march ran into its cap of MAX_ITER iterations.
MarchCapped == GeneralCase /\ iter >= MAX_ITER

\* C13: the march of constructRegionsPath makes no more than MAX_ITER
\* iterations; every call that has returned has returned a sequence of
\* waypoints; a call whose march had not stopped after MAX_ITER iterations
\* has logged the error and returns every waypoint recorded so far, in canvas
\* coordinates, and no other call logs the error.
C13_AlwaysReturns ==
  /\ op = "path" => iter <= MAX_ITER
  /\ Returned => Len(result) > 0
  /\ (Returned /\ GeneralCase) => (errorLogged <=> MarchCapped)
  /\ (Returned /\ MarchCapped) =>
       /\ Len(result) = Len(waypoints) /\ Len(result) >= MAX_ITER
       /\ \A k \in {1, Len(result)} :
            result[k] = from2dCutawayCoordinate(waypoints[k], start, end)

\* A march that was stopped by the cap, short of the end.
C13_Witness ==
  /\ Returned /\ MarchCapped /\ errorLogged
  /\ RLt(to2dCutawayCoordinate(result[Len(result)], start).x, end2d.x)

\* The fixed point of nearestGroundElevation ran into its cap.
GroundCapped == GroundReturned /\ iter >= MAX_ITER

\* C14 as stated: nearestGroundElevation makes no more than MAX_ITER
\* iterations, and a call that ran into the cap has logged the error and
\* returns the last elevation computed, the maximum of the last iteration.
C14_LastComputed ==
  /\ op = "ground" => iter <= MAX_ITER
  /\ GroundCapped => (errorLogged /\ groundElevation = maxElevation)

\* C14: nearestGroundElevation makes no more than MAX_ITER iterations; a
\* call logs the error exactly when it made MAX_ITER iterations; a call that
\* ran into the cap returns the elevation that its last iteration tested.
C14_GroundCap ==
  /\ op = "ground" => iter <= MAX_ITER
  /\ GroundReturned => (errorLogged <=> iter >= MAX_ITER)
  /\ GroundCapped => groundElevation = currElevation

\* The elevation still alternated between two values when the cap stopped
\* the fixed point.
C14_Witness ==
  /\ GroundCapped /\ iter = MAX_ITER /\ errorLogged
  /\ maxElevation # currElevation /\ maxElevation # NegInf
  /\ groundElevation = currElevation

\* The conversion there and back has been made.
RoundTripDone == op = "roundtrip" /\ pc = "done"

\* The signed distance of the converted point, and of the end, from the
\* start along the line of travel.
PointAhead == RSub(Along(waypoint), Along(start))

EndAhead == RSub(Along(end), Along(start))

\* The point lies on the ray from the start through the end.
OnRay == RSign(PointAhead) = 0 \/ RSign(PointAhead) = RSign(EndAhead)

\* C15 as stated: for every point of the start-end line, behind the start
\* and beyond the end included, the conversion to cutaway coordinates and
\* back yields the point's planar position and elevation.
C15_RoundTripLine == RoundTripDone => result[1] = waypoint

\* C15: for every point of the ray from the start through the end, beyond
\* the end included, the conversion to cutaway coordinates and back yields
\* the point's planar position and elevation; for every point of the line it
\* yields the point's elevation.
C15_RoundTripRay ==
  RoundTripDone =>
    /\ result[1].elevation = waypoint.elevation
    /\ OnRay => result[1] = waypoint

\* A point beyond the end, at another elevation than the end's, came back.
C15_Witness ==
  /\ RoundTripDone /\ OnRay /\ RLt(RAbs(EndAhead), RAbs(PointAhead))
  /\ waypoint.elevation # end.elevation
  /\ result[1] = waypoint

\* The arguments of the call under way are those of the returned call c.
SameArguments(c) ==
  /\ c.start = start /\ c.end = end /\ c.zones = zones
  /\ c.flying = flying /\ c.burrowing = burrowing

\* The oriented cutaway polygons of the arguments of the call under way.
OwnPolygons ==
  LET combined == regions2dCutaway(start, end, elevatedRegions(zones), sceneFloor)
      ccw == RLt(Rat(0), RFloor(distanceBetween(start, end)))
  IN  [j \in 1..Len(combined) |-> IF ccw THEN combined[j] ELSE Reverse(combined[j])]

\* C16: a call of constructRegionsPath returns what every earlier call with
\* the same start, end, zones and flags returned, whatever calls were made
\* in between; the polygons whose points and edges the march reads are those
\* built from the arguments of the call under way.
C16_Stateless ==
  /\ Returned => \A k \in 1..Len(returned) :
                    SameArguments(returned[k]) => returned[k].result = result
  /\ (GeneralCase /\ pc \in {"march", "post", "done"}) => polys = OwnPolygons

\* The third call marched as the first call did, after a second call that
\* marched over other polygons and returned another path.
C16_Witness ==
  /\ Returned /\ GeneralCase /\ Len(returned) = 2 /\ Len(result) > 2
  /\ SameArguments(returned[1]) /\ returned[1].result = result
  /\ returned[2].zones # zones /\ returned[2].end = end
  /\ returned[2].flying = flying
  /\ Len(returned[2].result) > 2 /\ returned[2].result # result

\* There are elevated zones and the segment from start to end meets none of
\* them: each begins beyond the end.
NoneIntersects ==
  /\ elevatedRegions(zones) # <<>>
  /\ \A j \in 1..Len(elevatedRegions(zones)) :
       RLt(EndDistance, Rat(elevatedRegions(zones)[j].lo))

\* C17: when there are zones and none of them intersects the segment from
\* start to end, constructRegionsPath returns exactly [start, end], whatever
\* the flags and the classification of the start.
C17_NoIntersection ==
  (Returned /\ NoneIntersects) => result = <<start, end>>

\* C18: in a move straight up or down whose end is reset to the ground, the
\* end waypoint returned has the x and the y of the end passed in.
C18_SnappedEndKeepsXY ==
  (Returned /\ PureVertical /\ EndIsSnapped) =>
    /\ Len(result) = 2
    /\ result[2].x = end.x
    /\ result[2].y = end.y

\* The march is about to make its first iteration: the cursor is the start.
MarchStarts == op = "path" /\ pc = "march" /\ iter = 0

\* The start's classification against the cutaway polygons asks for the
\* vertical move to the floor.
StartDrops ==
  \/ (burrowing = "false" /\ cutawayElevationType(currPosition, polys) = UNDERGROUND)
  \/ (flying = "false" /\ cutawayElevationType(currPosition, polys) = FLOATING)

\* C19: when the march starts, the first interim target is the point at the
\* start's distance and the scene floor's elevation exactly when burrowing is
\* false and the start is UNDERGROUND, or flying is false and the start is
\* FLOATING; in every other case, the flag unset or true, it is the end.
C19_FirstTarget ==
  MarchStarts =>
    IF StartDrops
    THEN /\ currEnd.o = DropObj(0)
         /\ currEnd.x = currPosition.x /\ currEnd.y = Rat(sceneFloor)
    ELSE currEnd = end2d /\ currEnd.o = EndObj

\* A floating start with flying unset: the first target is the end, which is
\* elsewhere than the point on the floor under the start.
C19_Witness ==
  /\ MarchStarts /\ flying = "unset"
  /\ cutawayElevationType(currPosition, polys) = FLOATING
  /\ currEnd = end2d /\ RLt(currPosition.x, currEnd.x)

\* The interim target and the tracked polygon of the iteration about to be
\* made, as steps 1 to 3 leave them.
TargetAfterStep1 == BackwardsTarget(flying, currEnd, currPosition, end2d, iter + 1)

PolyAfterStep1 == IF RLt(currEnd.x, currPosition.x) THEN 0 ELSE currPoly

TargetAfterStep2 ==
  IF FlyingLower(flying, TargetAfterStep1, currPosition, end2d)
  THEN end2d ELSE TargetAfterStep1

PolyAfterStep2 ==
  IF FlyingLower(flying, TargetAfterStep1, currPosition, end2d)
  THEN 0 ELSE PolyAfterStep1

TargetAfterStep3 ==
  IF SamePoint(currPosition, TargetAfterStep2) THEN end2d ELSE TargetAfterStep2

PolyAfterStep3 ==
  IF SamePoint(currPosition, TargetAfterStep2) THEN 0 ELSE PolyAfterStep2

\* The iteration about to be made takes the line-of-sight shortcut of step 4.
ShortcutFires ==
  /\ op = "path" /\ pc = "march" /\ iter < MAX_ITER
  /\ RLt(currPosition.x, end2d.x)
  /\ LineOfSightJump(flying, burrowing, currPosition, end2d, endType, destPoly,
                     PolyAfterStep3, polys)

\* C20: an iteration that takes the line-of-sight shortcut moves the cursor
\* to the end, so that the next waypoint recorded is the end, whatever the
\* interim target is.
C20_ShortcutToEnd ==
  [][(ShortcutFires /\ MarchStep) => SamePoint(currPosition', end2d)]_vars

\* The crossings that step 5 of the iteration about to be made computes.
CrossingIxs ==
  polygonsIntersections(currPosition, TargetAfterStep3, polys, PolyAfterStep3)

\* The iteration about to be made reaches step 5 with burrowing set, no
\* polygon tracked, and a polygon between the cursor and the interim target.
BurrowerCrosses ==
  /\ op = "path" /\ pc = "march" /\ iter < MAX_ITER
  /\ Truthy(burrowing)
  /\ RLt(currPosition.x, end2d.x)
  /\ ~LineOfSightJump(flying, burrowing, currPosition, end2d, endType, destPoly,
                      PolyAfterStep3, polys)
  /\ PolyAfterStep3 = 0
  /\ Len(CrossingIxs) > 0

\* The crossings of the nearest polygon other than the nearest crossing.
SecondCrossings ==
  {n \in 2..Len(CrossingIxs) : /\ CrossingIxs[n].poly = CrossingIxs[1].poly
                               /\ ~SamePoint(CrossingIxs[n], CrossingIxs[1])}

\* The far endpoint of the edge crossed first.
CrossedEdgeB == EdgeB(polys[CrossingIxs[1].poly], CrossingIxs[1].edge)

\* C21: a burrower whose segment to the interim target crosses the nearest
\* polygon a second time ends the step on that second, distinct crossing with
\* no polygon tracked and the end as interim target; without a second
\* crossing the polygon stays tracked and the march goes on to the far
\* endpoint of the crossed edge.
C21_BurrowJump ==
  [][(BurrowerCrosses /\ MarchStep) =>
       IF SecondCrossings # {}
       THEN /\ \E n \in SecondCrossings : SamePoint(currPosition', CrossingIxs[n])
            /\ currPoly' = 0
            /\ currEnd' = end2d
       ELSE /\ currPoly' = CrossingIxs[1].poly
            /\ SamePoint(currPosition', CrossedEdgeB)]_vars

\* ------------------------------------------------------------------------
\* Option 2 of nearestGroundElevation
\* ------------------------------------------------------------------------
\* nearestGroundElevation is about to run for a point inside no zone and not
\* at the scene floor.
FallsToGround ==
  /\ pc = "ground"
  /\ waypoint.elevation # Rat(sceneFloor)
  /\ \A j \in 1..Len(elevatedRegions(zones)) :
       ~testPoint(elevatedRegions(zones)[j], waypoint, waypoint.elevation)

\* The zones entered on the vertical segment from the point to the floor.
EnteredZones ==
  {j \in 1..Len(elevatedRegions(zones)) :
     FallEntry(elevatedRegions(zones)[j], waypoint, waypoint.elevation, sceneFloor) # <<>>}

\* The vertical distance from the point to where it enters zone j.
EntryDistance(j) ==
  RAbs(RSub(waypoint.elevation,
            FallEntry(elevatedRegions(zones)[j], waypoint, waypoint.elevation,
                      sceneFloor)[1]))

NearestEntered ==
  {j \in EnteredZones : \A k \in EnteredZones : RLe(EntryDistance(j), EntryDistance(k))}

\* C22: for a point inside no zone and not at the scene floor,
\* nearestGroundElevation returns the floor when the vertical segment to the
\* floor enters no zone, and otherwise adopts the entry elevation of a zone
\* whose entry point is nearest to the point, above the floor and below it.
C22_NearestEntry ==
  [][(FallsToGround /\ GroundBegin) =>
       IF EnteredZones = {}
       THEN pc' = "done" /\ groundElevation' = Rat(sceneFloor)
       ELSE \E j \in NearestEntered :
              currElevation' = elevationUponEntry(elevatedRegions(zones)[j], waypoint)]_vars

\* The same for the points above the scene floor only.
C22_NearestEntryAbove ==
  [][(FallsToGround /\ GroundBegin /\ RLt(Rat(sceneFloor), waypoint.elevation)) =>
       IF EnteredZones = {}
       THEN pc' = "done" /\ groundElevation' = Rat(sceneFloor)
       ELSE \E j \in NearestEntered :
              currElevation' = elevationUponEntry(elevatedRegions(zones)[j], waypoint)]_vars

\* C23: with burrowing false, nearestGroundElevation returns the scene floor,
\* the input elevation, or the entry elevation of one of the zones at the
\* point, and so never negative infinity.
C23_FiniteResult ==
  (GroundReturned /\ ~Truthy(burrowing)) =>
    \/ groundElevation = Rat(sceneFloor)
    \/ groundElevation = waypoint.elevation
    \/ \E j \in 1..Len(elevatedRegions(zones)) :
         groundElevation = elevationUponEntry(elevatedRegions(zones)[j], waypoint)

\* The march is over and its last waypoint is within 0.51 of the planar
\* distance from the start to the end.
LastNearTrueEnd ==
  /\ op = "path" /\ pc = "post"
  /\ AlmostEqual(EndDistance, waypoints[Len(waypoints)].x, Norm(51, 100))

\* C24: when the march ends with its last waypoint within 0.51 of the planar
\* distance from the start to the end, the last waypoint returned lies at
\* exactly that distance from the start, integer or not.
C24_LastAtTrueEnd ==
  [][(LastNearTrueEnd /\ PathFinish) =>
       CutawayDistance(result'[Len(result')]) = EndDistance]_vars

\* C25: the path returned by the general-case march never holds two
\* consecutive waypoints with the same cutaway distance and the same
\* elevation, whatever the flags are.
C25_NoRepeatedWaypoint ==
  (Returned /\ GeneralCase) =>
    \A k \in 1..(Len(result) - 1) :
      ~(/\ CutawayDistance(result[k]) = CutawayDistance(result[k + 1])
        /\ result[k].elevation = result[k + 1].elevation)

\* The cutaway is the scene floor with one rectangular plateau resting on
\* it, and the flags are not both true.
FloorAndPlateau ==
  /\ GeneralCase
  /\ Len(zones) = 1 /\ zones[1].kind = "plateau" /\ zones[1].bottom = sceneFloor
  /\ ~(flying = "true" /\ burrowing = "true")

\* The march loop has been left.
MarchOver == op = "path" /\ pc \in {"post", "done"}

\* C26: over the scene floor with one plateau resting on it, whatever the
\* classifications of the start and the end and whatever the flags, the march
\* stops because the cursor's distance has reached the end's, before the cap
\* of 10 000 iterations and without the iteration error.
C26_StopsAtEnd ==
  (FloorAndPlateau /\ MarchOver) =>
    /\ iter < MAX_ITER
    /\ ~errorLogged
    /\ RLe(end2d.x, currPosition.x)

\* A march over the plateau that took several iterations, from a start and
\* to an end that are not on the ground.
C26_Witness ==
  /\ FloorAndPlateau /\ pc = "done"
  /\ cutawayElevationType(waypoints[1], polys) = FLOATING
  /\ endType = UNDERGROUND
  /\ iter > 2 /\ iter < MAX_ITER
  /\ ~errorLogged
  /\ RLe(end2d.x, currPosition.x)

\* ------------------------------------------------------------------------
\* Properties of TerrainLevel
\* ------------------------------------------------------------------------
\* The anchor elevation the three anchor choices stand for.
AnchorNumber ==
  CASE anchor = "ABSOLUTE" -> 0
    [] anchor = "RELATIVE_TO_TERRAIN" ->
         IF location = "none" \/ canvasElevation.type = "undefined"
         THEN 0 ELSE canvasElevation.value
    [] anchor = "RELATIVE_TO_LAYER" -> layerElevation(layerElevations, level)

\* C27: getAnchorElevation gives elevationRange a number for every anchor
\* choice: 0 for ABSOLUTE, the canvas elevation at the location (0 without
\* a location) for RELATIVE_TO_TERRAIN, the scene's stored elevation of the
\* level (0 when none is stored) for RELATIVE_TO_LAYER.
C27_NumericAnchor ==
  (op = "anchor" /\ pc = "done") =>
    /\ anchorE.type = "number"
    /\ anchorE.value = AnchorNumber

Spec == Init /\ [][Next]_vars

\* The calls of constructRegionsPath and nearestGroundElevation, those that
\* run into the iteration caps among them.
SpecCap == InitCap /\ [][NextCap]_vars

\* Calls of constructRegionsPath one after another.
SpecCalls == InitCalls /\ [][NextCalls]_vars

\* Calls of TerrainLevel#elevationRange.
SpecAnchor == InitAnchor /\ [][NextAnchor]_vars
====
